---- MODULE Spec2Model ----
(***************************************************************************)
(* A model of rs8583: the ISO 8583 bitmap (bitmap.rs), the field           *)
(* specification (spec.rs) and the message parser/serializer (msg.rs).     *)
(*                                                                         *)
(* Bytes are integers 0..255, byte buffers are sequences of bytes.  A      *)
(* BitVec<Lsb0, u64> is the record [len, ones]: its length in bits and     *)
(* the set of indices whose bit is true.                                   *)
(***************************************************************************)
EXTENDS Integers, Sequences, FiniteSets, TLC

VARIABLES
    data,      \* the buffer handed to from_bytes / from_cursor
    cursor,    \* what remains of it (the Bytes cursor)
    status,    \* "start", "ok", "err" (Err returned) or "panic"
    err,       \* the ParseError of an Err result
    spec,      \* Message.spec, the MessageSpec
    mti,       \* Message.mti
    bitmap,    \* Message.bitmap / the BitMap under test
    fields,    \* Message.fields
    out,       \* the result of the last serialize
    yielded,   \* the indices collected from the last iter_set
    last,      \* the last operation, its arguments and the state before it
    nops,      \* number of mutating calls made so far
    used       \* the kinds of mutating calls made so far

vars == <<data, cursor, status, err, spec, mti, bitmap, fields, out, yielded,
          last, nops, used>>

\* ------------------------------------------------------------------ bounds
MaxChunks == 4      \* bitmap chunks in a generated input
MaxDrop == 1        \* bytes cut from the end of a generated bitmap input
MaxBitOps == 2      \* set/clear calls on a BitMap per behaviour
MaxOps == 2         \* set_field/clear_field calls on a Message per behaviour
MaxPayload == 3     \* payload bytes after the bitmap in a generated message
MaxPrefix == 4      \* leading bytes of a cursor handed to to_read
MaxField == 10      \* bytes of a payload handed to serialize_field

\* ------------------------------------------------------------- constants
ChunkBits == 64     \* bits in a u64 chunk
ChunkBytes == 8     \* size_of::<u64>()
MtiLen == 4
FieldsLen == 128    \* vec![None; 128]

None == [some |-> FALSE]
Some(v) == [some |-> TRUE, v |-> v]
NoErr == [msg |-> "", args |-> <<>>]
ParseError(m, a) == [msg |-> m, args |-> a]
NoLast == [op |-> "none"]
NoOut == [done |-> FALSE]
NoYield == [done |-> FALSE]

\* ------------------------------------------------------------ byte helpers
RECURSIVE Pow(_, _)
Pow(b, n) == IF n = 0 THEN 1 ELSE b * Pow(b, n - 1)

Drop(s, n) == SubSeq(s, n + 1, Len(s))
Take(s, n) == SubSeq(s, 1, n)

RECURSIVE SeqsUpTo(_, _)
SeqsUpTo(S, n) ==
    IF n = 0 THEN {<<>>}
    ELSE LET shorter == SeqsUpTo(S, n - 1)
         IN shorter \cup {Append(s, x) : s \in shorter, x \in S}

RECURSIVE Flatten(_)
Flatten(ss) == IF ss = <<>> THEN <<>> ELSE Head(ss) \o Flatten(Tail(ss))

\* The wire bytes of bitmap chunks of which only the first byte is not zero.
WireChunk(b) == <<b, 0, 0, 0, 0, 0, 0, 0>>
WireOf(bs) == Flatten([k \in 1..Len(bs) |-> WireChunk(bs[k])])

\* ------------------------------------------------------------------ BitMap
EmptyBV == [len |-> 0, ones |-> {}]

\* BitVec::from_element(cursor.get_u64_le()) under Lsb0: bit i of the chunk
\* is bit (i mod 8) of the i/8-th byte read.
BitOfByte(b, k) == (b \div Pow(2, k)) % 2 = 1
FromElement(bytes8) ==
    {i \in 0..(ChunkBits - 1) : BitOfByte(bytes8[(i \div 8) + 1], i % 8)}

\* inner.append(&mut chunk)
BVAppend(inner, chunk) ==
    [len |-> inner.len + ChunkBits,
     ones |-> inner.ones \cup {inner.len + i : i \in chunk}]

\* The loop of BitMap::from_cursor.  chunks counts the chunks consumed.
RECURSIVE FromCursorLoop(_, _, _)
FromCursorLoop(cur, inner, chunks) ==
    IF Len(cur) < ChunkBytes
    THEN [ok |-> FALSE, err |-> ParseError("Truncated bitmap", <<>>),
          cursor |-> cur, chunks |-> chunks]
    ELSE LET chunk == FromElement(Take(cur, ChunkBytes))
             more == 0 \in chunk
             inner2 == BVAppend(inner, chunk)
             rest == Drop(cur, ChunkBytes)
         IN IF more
            THEN FromCursorLoop(rest, inner2, chunks + 1)
            ELSE [ok |-> TRUE, bitmap |-> inner2, cursor |-> rest,
                  chunks |-> chunks + 1]

BitMap_from_cursor(cur) == FromCursorLoop(cur, EmptyBV, 0)

\* put_u64_le of one chunk: byte j holds bits 8j..8j+7, least significant first.
RECURSIVE ByteOf(_, _, _)
ByteOf(ones, base, k) ==
    IF k = 8 THEN 0
    ELSE (IF base + k \in ones THEN Pow(2, k) ELSE 0) + ByteOf(ones, base, k + 1)

PutU64Le(ones, c) == [j \in 1..ChunkBytes |-> ByteOf(ones, ChunkBits * c + 8 * (j - 1), 0)]

\* BitMap::serialize: every element of inner.as_slice(), in order.
BitMap_serialize(bm) ==
    Flatten([c \in 1..((bm.len + ChunkBits - 1) \div ChunkBits) |-> PutU64Le(bm.ones, c - 1)])

\* BitVec::resize(new_size, false)
BVResize(bm, n) == [len |-> n, ones |-> {i \in bm.ones : i < n}]

resize_for_idx(bm, idx) ==
    LET new_size == idx + 1
        new_size2 == new_size + (ChunkBits - (new_size % ChunkBits))
    IN BVResize(bm, new_size2)

BitMap_test(bm, idx) == IF bm.len > idx THEN idx \in bm.ones ELSE FALSE

BVSet(bm, idx, v) ==
    [len |-> bm.len, ones |-> IF v THEN bm.ones \cup {idx} ELSE bm.ones \ {idx}]

BitMap_set(bm, idx) ==
    LET b1 == IF bm.len <= idx THEN resize_for_idx(bm, idx) ELSE bm
        b2 == BVSet(b1, idx, TRUE)
    IN IF idx > 63 THEN BVSet(b2, (idx - 64) - (idx % 64), TRUE) ELSE b2

BitMap_clear(bm, idx) ==
    IF bm.len > idx /\ idx \in bm.ones THEN BVSet(bm, idx, FALSE) ELSE bm

\* iter_set without the test for control bits.
BitMap_iter_set_unfiltered(bm) ==
    SelectSeq([k \in 1..bm.len |-> k - 1], LAMBDA idx : idx \in bm.ones)

\* inner.iter().enumerate().filter_map(..): the indices in increasing order,
\* control bits dropped, then the clear bits dropped.
BitMap_iter_set(bm) ==
    SelectSeq([k \in 1..bm.len |-> k - 1],
              LAMBDA idx : IF idx % 64 = 0 THEN FALSE ELSE idx \in bm.ones)

\* --------------------------------------------------------------- FieldSpec
\* A FieldSpec is [length_type, length]; a MessageSpec is [n, defs]: the
\* length of its fields vector and the FieldSpec of every slot that is Some.
FieldSpec(lt, l) == [length_type |-> lt, length |-> l]

length_size(lt) ==
    CASE lt = "LVar" -> 1
      [] lt = "LLVar" -> 2
      [] lt = "LLLVar" -> 3
      [] lt = "LLLLVar" -> 4
      [] OTHER -> 0

FieldSpec_byte_to_length(len_byte) ==
    IF len_byte > 57
    THEN [ok |-> FALSE, err |-> ParseError("Length byte out of range", <<len_byte>>)]
    ELSE IF len_byte < 48
    THEN [ok |-> FALSE, err |-> ParseError("Length byte out of range", <<len_byte>>)]
    ELSE [ok |-> TRUE, v |-> len_byte - 48]

\* The while loop of parse_length_prefix: one get_u8 per remaining digit.
RECURSIVE PrefixLoop(_, _, _)
PrefixLoop(cur, len, sz) ==
    IF len > 0
    THEN LET d == FieldSpec_byte_to_length(Head(cur))
         IN IF d.ok
            THEN PrefixLoop(Tail(cur), len - 1, sz + d.v * Pow(10, len - 1))
            ELSE [ok |-> FALSE, err |-> d.err, cursor |-> Tail(cur)]
    ELSE [ok |-> TRUE, v |-> sz, cursor |-> cur]

\* parse_length_prefix with sz >= self.length in place of >.
parse_length_prefix_strict(fs, cur, len) ==
    IF len = 0 THEN [ok |-> TRUE, v |-> 0, cursor |-> cur]
    ELSE IF Len(cur) < len
    THEN [ok |-> FALSE, cursor |-> cur,
          err |-> ParseError("Unable to read length prefix", <<len, Len(cur)>>)]
    ELSE LET r == PrefixLoop(cur, len, 0)
         IN IF ~r.ok THEN r
            ELSE IF r.v >= fs.length
            THEN [ok |-> FALSE, cursor |-> r.cursor,
                  err |-> ParseError("Variable length field over max length",
                                     <<r.v, fs.length>>)]
            ELSE r

parse_length_prefix(fs, cur, len) ==
    IF len = 0 THEN [ok |-> TRUE, v |-> 0, cursor |-> cur]
    ELSE IF Len(cur) < len
    THEN [ok |-> FALSE, cursor |-> cur,
          err |-> ParseError("Unable to read length prefix", <<len, Len(cur)>>)]
    ELSE LET r == PrefixLoop(cur, len, 0)
         IN IF ~r.ok THEN r
            ELSE IF r.v > fs.length
            THEN [ok |-> FALSE, cursor |-> r.cursor,
                  err |-> ParseError("Variable length field over max length",
                                     <<r.v, fs.length>>)]
            ELSE r

to_read(fs, cur) ==
    CASE fs.length_type = "BitMap" -> [ok |-> TRUE, v |-> 0, cursor |-> cur]
      [] fs.length_type = "Fixed" -> [ok |-> TRUE, v |-> fs.length, cursor |-> cur]
      [] OTHER -> parse_length_prefix(fs, cur, length_size(fs.length_type))

\* format!("{0:01$}", data_len, prefix_len): the decimal digits of data_len,
\* zero-padded on the left to at least prefix_len characters.
RECURSIVE DecDigits(_)
DecDigits(n) == IF n < 10 THEN <<48 + n>> ELSE Append(DecDigits(n \div 10), 48 + (n % 10))

RECURSIVE ZeroPad(_, _)
ZeroPad(digits, width) ==
    IF Len(digits) >= width THEN digits ELSE ZeroPad(<<48>> \o digits, width)

\* serialize_prefix without the zero padding.
serialize_prefix_unpadded(buf, prefix_len, data_len) == buf \o DecDigits(data_len)

serialize_prefix(buf, prefix_len, data_len) ==
    buf \o ZeroPad(DecDigits(data_len), prefix_len)

serialize_field(fs, buf, field) ==
    CASE fs.length_type = "BitMap" -> [ok |-> TRUE, buf |-> buf]
      [] fs.length_type = "Fixed" ->
            IF fs.length = Len(field)
            THEN [ok |-> TRUE, buf |-> buf \o field]
            ELSE [ok |-> FALSE, err |-> ParseError("Invalid field length", <<>>)]
      [] OTHER ->
            [ok |-> TRUE,
             buf |-> serialize_prefix(buf, length_size(fs.length_type), Len(field)) \o field]

\* spec.fields.get(idx): absent beyond the vector, else the slot.
SpecInRange(sp, idx) == idx < sp.n
SpecSlot(sp, idx) == IF idx \in DOMAIN sp.defs THEN Some(sp.defs[idx]) ELSE None

\* ----------------------------------------------------------------- Message
MTI_from_cursor(cur) ==
    IF Len(cur) < MtiLen
    THEN [ok |-> FALSE, err |-> ParseError("Truncated MTI", <<>>), cursor |-> cur]
    ELSE [ok |-> TRUE, mti |-> Take(cur, MtiLen), cursor |-> Drop(cur, MtiLen)]

\* A Vec<Option<Field>> is [n, at]: its length and the payload of every
\* entry that is Some.
EmptyVec == [n |-> 0, at |-> <<>>]
NoFields == [n |-> FieldsLen, at |-> <<>>]      \* vec![None; 128]
VecInRange(flds, idx) == idx < flds.n
VecPut(flds, idx, value) == [flds EXCEPT !.at = (idx :> value) @@ @]
VecTake(flds, idx) ==
    [flds EXCEPT !.at = [j \in (DOMAIN @) \ {idx} |-> @[j]]]

\* One entry of the parse log per index taken from iter_set: what the loop
\* body of parse_fields did with it, the bytes remaining when it started
\* (before) and once to_read had returned (avail), and to_read's result.
Visit(idx, what, before, avail, need) ==
    [idx |-> idx, what |-> what, before |-> before, avail |-> avail, need |-> need]

\* cursor.remaining() <= to_read in place of <.
FieldTruncated_inclusive(remaining, need) == remaining <= need

\* cursor.remaining() < to_read
FieldTruncated(remaining, need) == remaining < need

\* The for loop of Message::parse_fields over idxs = bitmap.iter_set(),
\* from position k on.
RECURSIVE ParseLoop(_, _, _, _, _, _)
ParseLoop(sp, idxs, k, cur, flds, log) ==
    IF k > Len(idxs)
    THEN [kind |-> "ok", fields |-> flds, cursor |-> cur, log |-> log]
    ELSE LET idx == idxs[k]
         IN IF ~SpecInRange(sp, idx)
            THEN \* spec.fields.get(idx).unwrap() on None
                 [kind |-> "panic", cursor |-> cur,
                  log |-> Append(log, Visit(idx, "panic_spec", Len(cur), Len(cur), 0))]
            ELSE IF ~SpecSlot(sp, idx).some
            THEN ParseLoop(sp, idxs, k + 1, cur, flds,
                           Append(log, Visit(idx, "skip", Len(cur), Len(cur), 0)))
            ELSE LET r == to_read(SpecSlot(sp, idx).v, cur)
                 IN IF ~r.ok
                    THEN [kind |-> "err", err |-> r.err, cursor |-> r.cursor,
                          log |-> Append(log, Visit(idx, "err", Len(cur), Len(r.cursor), 0))]
                    ELSE IF FieldTruncated(Len(r.cursor), r.v)
                    THEN [kind |-> "err", cursor |-> r.cursor,
                          err |-> ParseError("Truncated field", <<>>),
                          log |-> Append(log, Visit(idx, "truncated", Len(cur),
                                                    Len(r.cursor), r.v))]
                    ELSE IF ~VecInRange(flds, idx)
                    THEN \* fields[idx] = .. beyond the 128 entries
                         [kind |-> "panic", cursor |-> r.cursor,
                          log |-> Append(log, Visit(idx, "panic_fields", Len(cur),
                                                    Len(r.cursor), r.v))]
                    ELSE ParseLoop(sp, idxs, k + 1, Drop(r.cursor, r.v),
                                   VecPut(flds, idx, Take(r.cursor, r.v)),
                                   Append(log, Visit(idx, "read", Len(cur),
                                                     Len(r.cursor), r.v)))

parse_fields(sp, bm, cur) ==
    ParseLoop(sp, BitMap_iter_set(bm), 1, cur, NoFields, <<>>)

\* Message::from_bytes: the three stages, the first failure returned.
Message_from_bytes(sp, buf) ==
    LET m == MTI_from_cursor(buf)
    IN IF ~m.ok
       THEN [kind |-> "err", err |-> m.err, cursor |-> m.cursor, stage |-> "mti",
             log |-> <<>>]
       ELSE LET b == BitMap_from_cursor(m.cursor)
            IN IF ~b.ok
               THEN [kind |-> "err", err |-> b.err, cursor |-> b.cursor,
                     stage |-> "bitmap", log |-> <<>>]
               ELSE LET f == parse_fields(sp, b.bitmap, b.cursor)
                    IN IF f.kind = "ok"
                       THEN [kind |-> "ok", mti |-> m.mti, bitmap |-> b.bitmap,
                             fields |-> f.fields, cursor |-> f.cursor,
                             stage |-> "fields", log |-> f.log, parsed |-> b.bitmap]
                       ELSE IF f.kind = "err"
                       THEN [kind |-> "err", err |-> f.err, cursor |-> f.cursor,
                             stage |-> "fields", log |-> f.log, parsed |-> b.bitmap]
                       ELSE [kind |-> "panic", cursor |-> f.cursor,
                             stage |-> "fields", log |-> f.log, parsed |-> b.bitmap]

Message_field(flds, id) ==
    IF id >= flds.n THEN None
    ELSE IF id \in DOMAIN flds.at THEN Some(flds.at[id]) ELSE None

\* The for loop of Message::serialize over idxs = bitmap.iter_set().
RECURSIVE SerializeLoop(_, _, _, _, _)
SerializeLoop(sp, flds, idxs, k, buf) ==
    IF k > Len(idxs)
    THEN [kind |-> "ok", bytes |-> buf]
    ELSE LET idx == idxs[k]
             field == Message_field(flds, idx)
         IN IF ~field.some
            THEN SerializeLoop(sp, flds, idxs, k + 1, buf)
            ELSE IF ~SpecInRange(sp, idx)
            THEN [kind |-> "panic"]
            ELSE IF ~SpecSlot(sp, idx).some
            THEN SerializeLoop(sp, flds, idxs, k + 1, buf)
            ELSE LET r == serialize_field(SpecSlot(sp, idx).v, buf, field.v)
                 IN IF r.ok
                    THEN SerializeLoop(sp, flds, idxs, k + 1, r.buf)
                    ELSE [kind |-> "err", err |-> r.err]

\* serialize walking the set bits from the highest index down.
Message_serialize_descending(sp, m, bm, flds) ==
    LET idxs == BitMap_iter_set(bm)
    IN SerializeLoop(sp, flds, [k \in 1..Len(idxs) |-> idxs[Len(idxs) + 1 - k]], 1,
                     m \o BitMap_serialize(bm))

Message_serialize(sp, m, bm, flds) ==
    SerializeLoop(sp, flds, BitMap_iter_set(bm), 1, m \o BitMap_serialize(bm))

\* self.fields[idx] = Some(..) indexes the vector before bitmap.set runs.
Message_set_field(bm, flds, idx, value) ==
    IF ~VecInRange(flds, idx)
    THEN [kind |-> "panic", bitmap |-> bm, fields |-> flds]
    ELSE [kind |-> "ok", bitmap |-> BitMap_set(bm, idx),
          fields |-> VecPut(flds, idx, value)]

\* clear_field that forgets the bitmap.
Message_clear_field_keepbit(bm, flds, idx) ==
    IF ~VecInRange(flds, idx)
    THEN [kind |-> "panic", bitmap |-> bm, fields |-> flds]
    ELSE [kind |-> "ok", bitmap |-> bm, fields |-> VecTake(flds, idx)]

Message_clear_field(bm, flds, idx) ==
    IF ~VecInRange(flds, idx)
    THEN [kind |-> "panic", bitmap |-> bm, fields |-> flds]
    ELSE [kind |-> "ok", bitmap |-> BitMap_clear(bm, idx),
          fields |-> VecTake(flds, idx)]

\* ------------------------------------------------------ messages as inputs
Mti0120 == <<48, 49, 50, 48>>       \* "0120"
Alphabet == {48, 49, 65}            \* '0', '1', 'A'
Payloads == SeqsUpTo(Alphabet, MaxPayload)

\* Slots 1 (Fixed 1) and 2 (LLVar up to 10) are defined and slot 3 is empty
\* in both specs; the short vector ends there, the long one also defines
\* slots 63, 65 and 129 and ends before 130.
ShortSpec == [n |-> 4,
              defs |-> (1 :> FieldSpec("Fixed", 1)) @@ (2 :> FieldSpec("LLVar", 10))]
LongSpec == [n |-> 130,
             defs |-> (1 :> FieldSpec("Fixed", 1)) @@ (2 :> FieldSpec("LLVar", 10))
                      @@ (63 :> FieldSpec("Fixed", 1)) @@ (65 :> FieldSpec("Fixed", 1))
                      @@ (129 :> FieldSpec("Fixed", 1))]
MessageSpecs == {ShortSpec, LongSpec}

\* The bitmap bytes of a generated message: bits 0..3 of chunk 0, bits 64
\* and 65 of chunk 1, bits 129 and 130 of chunk 2 in the first byte of each
\* chunk, or one chunk that also has bit 63, the top bit of its last byte.
WireBitmaps ==
    {WireOf(<<a>>) : a \in 0..15}
    \cup {WireOf(<<a, b>>) : a \in 0..15, b \in 0..3}
    \cup {WireOf(<<a, b, c>>) : a \in 0..15, b \in 0..3, c \in {0, 2, 4}}
    \cup {<<a, 0, 0, 0, 0, 0, 0, 128>> : a \in 0..15}

Headers == {Mti0120 \o WireOf(bs) : bs \in {<<0>>, <<1, 0>>}}

\* Inputs of from_bytes: an MTI, a bitmap and up to MaxPayload bytes, and
\* every prefix of two headers.
ParseInputs ==
    {Mti0120 \o w \o p : w \in WireBitmaps, p \in Payloads}
    \cup UNION {{Take(h, n) : n \in 0..Len(h)} : h \in Headers}

LifeBitmaps == {<<0>>, <<2>>, <<4>>, <<6>>, <<3, 2>>}
LifeInputs == {Mti0120 \o WireOf(bs) \o p : bs \in LifeBitmaps, p \in Payloads}

\* Arguments of set_field and clear_field.
FieldIdx == {1, 2, 3, 65, 128}
Values == {<<65>>, <<65, 65>>}

InitMessage(inputs) ==
    /\ data \in inputs
    /\ spec \in MessageSpecs
    /\ cursor = data
    /\ status = "start"
    /\ err = NoErr
    /\ mti = <<>>
    /\ bitmap = EmptyBV
    /\ fields = EmptyVec
    /\ out = NoOut
    /\ yielded = NoYield
    /\ last = NoLast
    /\ nops = 0
    /\ used = {}

Init == InitMessage(LifeInputs)
InitParse == InitMessage(ParseInputs)

FromBytes ==
    /\ status = "start"
    /\ \E r \in {Message_from_bytes(spec, data)} :
          /\ status' = r.kind
          /\ cursor' = r.cursor
          /\ err' = IF r.kind = "err" THEN r.err ELSE NoErr
          /\ last' = [op |-> "from_bytes", stage |-> r.stage, log |-> r.log,
                      parsed |-> IF r.stage = "fields" THEN r.parsed ELSE EmptyBV]
          /\ IF r.kind = "ok"
             THEN /\ mti' = r.mti
                  /\ bitmap' = r.bitmap
                  /\ fields' = r.fields
             ELSE UNCHANGED <<mti, bitmap, fields>>
    /\ UNCHANGED <<data, spec, out, yielded, nops, used>>

SetField(idx, value) ==
    /\ status = "ok"
    /\ nops < MaxOps
    /\ \E r \in {Message_set_field(bitmap, fields, idx, value)} :
          /\ status' = r.kind
          /\ bitmap' = r.bitmap
          /\ fields' = r.fields
    /\ last' = [op |-> "set_field", idx |-> idx, value |-> value,
                pre |-> [bitmap |-> bitmap, fields |-> fields]]
    /\ nops' = nops + 1
    /\ used' = used \cup {"set_field"}
    /\ out' = NoOut
    /\ UNCHANGED <<data, cursor, err, spec, mti, yielded>>

ClearField(idx) ==
    /\ status = "ok"
    /\ nops < MaxOps
    /\ \E r \in {Message_clear_field(bitmap, fields, idx)} :
          /\ status' = r.kind
          /\ bitmap' = r.bitmap
          /\ fields' = r.fields
    /\ last' = [op |-> "clear_field", idx |-> idx,
                pre |-> [bitmap |-> bitmap, fields |-> fields]]
    /\ nops' = nops + 1
    /\ used' = used \cup {"clear_field"}
    /\ out' = NoOut
    /\ UNCHANGED <<data, cursor, err, spec, mti, yielded>>

Serialize ==
    /\ status = "ok"
    /\ ~out.done
    /\ \E r \in {Message_serialize(spec, mti, bitmap, fields)} :
          /\ out' = [done |-> TRUE] @@ r
          /\ status' = IF r.kind = "panic" THEN "panic" ELSE status
    /\ UNCHANGED <<data, cursor, err, spec, mti, bitmap, fields, yielded,
                   last, nops, used>>

Next ==
    \/ FromBytes
    \/ \E idx \in FieldIdx, value \in Values : SetField(idx, value)
    \/ \E idx \in FieldIdx : ClearField(idx)
    \/ Serialize

Spec == Init /\ [][Next]_vars

NextParse ==
    \/ FromBytes
    \/ Serialize

SpecParse == InitParse /\ [][NextParse]_vars

\* ------------------------------------------------- the BitMap on its own
\* Inputs of BitMap::from_cursor: up to MaxChunks chunks whose first byte
\* carries the continuation bit (bit 0) and data bit 1; every chunk but the
\* last announces its successor, and the last may announce a chunk that is
\* not there.  Up to MaxDrop bytes are cut from the end, or one byte trails.
FirstBytes == {0, 1, 2, 3}
Chained(bs) == \A k \in 1..(Len(bs) - 1) : bs[k] % 2 = 1
ChunkSeqs == {bs \in SeqsUpTo(FirstBytes, MaxChunks) : bs # <<>> /\ Chained(bs)}
BitmapInputs ==
    {Take(WireOf(bs), Len(WireOf(bs)) - d) : bs \in ChunkSeqs, d \in 0..MaxDrop}
    \cup {WireOf(bs) \o <<1>> : bs \in ChunkSeqs}

\* Indices handed to set and clear.
BitIdx == {0, 1, 64, 100, 127, 150}

NoSpec == [n |-> 0, defs |-> <<>>]

InitBitMap ==
    /\ data \in BitmapInputs
    /\ cursor = data
    /\ status = "start"
    /\ err = NoErr
    /\ spec = NoSpec
    /\ mti = <<>>
    /\ bitmap = EmptyBV
    /\ fields = EmptyVec
    /\ out = NoOut
    /\ yielded = NoYield
    /\ last = NoLast
    /\ nops = 0
    /\ used = {}

BM_FromCursor ==
    /\ status = "start"
    /\ \E r \in {BitMap_from_cursor(cursor)} :
          /\ cursor' = r.cursor
          /\ last' = [op |-> "from_cursor", chunks |-> r.chunks]
          /\ IF r.ok
             THEN /\ status' = "ok"
                  /\ bitmap' = r.bitmap
                  /\ err' = err
             ELSE /\ status' = "err"
                  /\ err' = r.err
                  /\ bitmap' = bitmap
    /\ UNCHANGED <<data, spec, mti, fields, out, yielded, nops, used>>

BM_Set(idx) ==
    /\ status = "ok"
    /\ nops < MaxBitOps
    /\ bitmap' = BitMap_set(bitmap, idx)
    /\ last' = [op |-> "set", idx |-> idx, pre |-> bitmap]
    /\ nops' = nops + 1
    /\ used' = used \cup {"set"}
    /\ out' = NoOut
    /\ yielded' = NoYield
    /\ UNCHANGED <<data, cursor, status, err, spec, mti, fields>>

BM_Clear(idx) ==
    /\ status = "ok"
    /\ nops < MaxBitOps
    /\ bitmap' = BitMap_clear(bitmap, idx)
    /\ last' = [op |-> "clear", idx |-> idx, pre |-> bitmap]
    /\ nops' = nops + 1
    /\ used' = used \cup {"clear"}
    /\ out' = NoOut
    /\ yielded' = NoYield
    /\ UNCHANGED <<data, cursor, status, err, spec, mti, fields>>

BM_Serialize ==
    /\ status = "ok"
    /\ ~out.done
    /\ out' = [done |-> TRUE, kind |-> "ok", bytes |-> BitMap_serialize(bitmap)]
    /\ UNCHANGED <<data, cursor, status, err, spec, mti, bitmap, fields,
                   yielded, last, nops, used>>

BM_IterSet ==
    /\ status = "ok"
    /\ ~yielded.done
    /\ yielded' = [done |-> TRUE, seq |-> BitMap_iter_set(bitmap)]
    /\ UNCHANGED <<data, cursor, status, err, spec, mti, bitmap, fields,
                   out, last, nops, used>>

NextBitMap ==
    \/ BM_FromCursor
    \/ \E idx \in BitIdx : BM_Set(idx)
    \/ \E idx \in BitIdx : BM_Clear(idx)
    \/ BM_Serialize
    \/ BM_IterSet

SpecBitMap == InitBitMap /\ [][NextBitMap]_vars

\* ----------------------------------------------- the FieldSpec on its own
\* Variable-length specs of every prefix width; the maximum lengths are
\* those of the tests of spec.rs (8, 12, 110) and the largest value four
\* digits can hold.
VarTypes == {"LVar", "LLVar", "LLLVar", "LLLLVar"}
FieldLengths == {8, 12, 110, 9999}
FieldSpecs == {FieldSpec(lt, l) : lt \in VarTypes, l \in FieldLengths}

\* Cursors handed to to_read: up to MaxPrefix bytes among '!', '0', '1',
\* '9' and 'A', alone or followed by "ABC".
PrefixAlphabet == {33, 48, 49, 57, 65}
CursorInputs ==
    {p \o t : p \in SeqsUpTo(PrefixAlphabet, MaxPrefix), t \in {<<>>, <<65, 66, 67>>}}

\* Payloads handed to serialize_field: 0..MaxField bytes 'A'.
FieldPayloads == {[k \in 1..n |-> 65] : n \in 0..MaxField}

\* The FieldSpec under test is slot 0 of a one-slot MessageSpec.
OneSlot(fs) == [n |-> 1, defs |-> (0 :> fs)]
TheSpec == spec.defs[0]

InitField ==
    /\ data \in CursorInputs \cup FieldPayloads
    /\ spec \in {OneSlot(fs) : fs \in FieldSpecs}
    /\ cursor = data
    /\ status = "start"
    /\ err = NoErr
    /\ mti = <<>>
    /\ bitmap = EmptyBV
    /\ fields = EmptyVec
    /\ out = NoOut
    /\ yielded = NoYield
    /\ last = NoLast
    /\ nops = 0
    /\ used = {}

\* to_read on the cursor.
FS_ToRead ==
    /\ status = "start"
    /\ \E r \in {to_read(TheSpec, cursor)} :
          /\ cursor' = r.cursor
          /\ status' = IF r.ok THEN "ok" ELSE "err"
          /\ err' = IF r.ok THEN NoErr ELSE r.err
          /\ last' = [op |-> "to_read", v |-> IF r.ok THEN Some(r.v) ELSE None]
    /\ UNCHANGED <<data, spec, mti, bitmap, fields, out, yielded, nops, used>>

\* serialize_field of the buffer taken as a Field, into an empty BytesMut.
FS_SerializeField ==
    /\ ~out.done
    /\ \E r \in {serialize_field(TheSpec, <<>>, data)} :
          out' = IF r.ok
                 THEN [done |-> TRUE, kind |-> "ok", bytes |-> r.buf]
                 ELSE [done |-> TRUE, kind |-> "err", err |-> r.err]
    /\ UNCHANGED <<data, cursor, status, err, spec, mti, bitmap, fields, yielded,
                   last, nops, used>>

\* to_read on the bytes serialize_field emitted.
FS_ReadBack ==
    /\ out.done
    /\ out.kind = "ok"
    /\ ~yielded.done
    /\ \E r \in {to_read(TheSpec, out.bytes)} :
          yielded' = [done |-> TRUE, ok |-> r.ok, rest |-> r.cursor,
                      v |-> IF r.ok THEN Some(r.v) ELSE None]
    /\ UNCHANGED <<data, cursor, status, err, spec, mti, bitmap, fields, out,
                   last, nops, used>>

NextField ==
    \/ FS_ToRead
    \/ FS_SerializeField
    \/ FS_ReadBack

SpecField == InitField /\ [][NextField]_vars

\* ------------------------------------- serialize and parse a Message again
\* set_field and clear_field on defined slots only; the values are one
\* byte, two bytes, and one byte more than the LLVar slot allows.
RevIdx == {1, 2, 65}
OverLong == [k \in 1..(ShortSpec.defs[2].length + 1) |-> 65]
RevValues == {<<65>>, <<65, 65>>, OverLong}

RT_SetField(idx, value) ==
    /\ ~yielded.done
    /\ SpecInRange(spec, idx)
    /\ SpecSlot(spec, idx).some
    /\ SetField(idx, value)

RT_ClearField(idx) ==
    /\ ~yielded.done
    /\ SpecInRange(spec, idx)
    /\ SpecSlot(spec, idx).some
    /\ ClearField(idx)

\* from_bytes on the bytes serialize returned, under the same spec.
Reparse ==
    /\ status = "ok"
    /\ out.done
    /\ out.kind = "ok"
    /\ ~yielded.done
    /\ \E r \in {Message_from_bytes(spec, out.bytes)} :
          yielded' = IF r.kind = "ok"
                     THEN [done |-> TRUE, kind |-> "ok", mti |-> r.mti,
                           bitmap |-> r.bitmap, fields |-> r.fields]
                     ELSE IF r.kind = "err"
                     THEN [done |-> TRUE, kind |-> "err", err |-> r.err]
                     ELSE [done |-> TRUE, kind |-> "panic"]
    /\ UNCHANGED <<data, cursor, status, err, spec, mti, bitmap, fields, out,
                   last, nops, used>>

NextReverse ==
    \/ FromBytes
    \/ \E idx \in RevIdx, value \in RevValues : RT_SetField(idx, value)
    \/ \E idx \in RevIdx : RT_ClearField(idx)
    \/ Serialize
    \/ Reparse

SpecReverse == Init /\ [][NextReverse]_vars

\* ------------------------------------------------------ claims on BitMap
NumChunks(bm) == bm.len \div ChunkBits
ChunkOf(i) == i \div ChunkBits

\* C3: after from_cursor and any sequence of set calls, a set bit in chunk
\* k >= 1 implies that bit 0 of every chunk 0..k-1 is set.
C3_ContinuationChain ==
    (status = "ok" /\ "clear" \notin used) =>
        \A i \in bitmap.ones :
            \A j \in 0..(ChunkOf(i) - 1) : (ChunkBits * j) \in bitmap.ones

\* C4: in the bytes BitMap::serialize emits, bit 0 of chunk k is 1 exactly
\* when a chunk k+1 follows, so from_cursor consumes exactly those bytes.
C4_WireContinuation ==
    (status = "ok" /\ out.done) =>
        LET n == Len(out.bytes) \div ChunkBytes
        IN /\ \A k \in 0..(n - 1) :
                (out.bytes[ChunkBytes * k + 1] % 2 = 1) <=> (k + 1 < n)
           /\ BitMap_from_cursor(out.bytes).ok
           /\ BitMap_from_cursor(out.bytes).cursor = <<>>

\* C5: set(i) with i >= len leaves the least multiple of 64 above i as the
\* length; with i < len the length is as before.
C5_GrowthOnSet ==
    (status = "ok" /\ last.op = "set") =>
        IF last.idx >= last.pre.len
        THEN bitmap.len = ChunkBits * (ChunkOf(last.idx) + 1)
        ELSE bitmap.len = last.pre.len

\* C6: a successful from_cursor returns 64, 128 or 192 bits, has consumed 8
\* bytes per chunk and stopped at the first chunk whose bit 0 is clear.
C6_FromCursorChunks ==
    (status = "ok" /\ last.op = "from_cursor") =>
        /\ bitmap.len \in {64, 128, 192}
        /\ Len(data) - Len(cursor) = ChunkBytes * NumChunks(bitmap)
        /\ \A k \in 0..(NumChunks(bitmap) - 1) :
              (data[ChunkBytes * k + 1] % 2 = 0) <=> (k = NumChunks(bitmap) - 1)

\* C7: iter_set yields, strictly ascending, exactly the set bits below the
\* length whose index is not a multiple of 64.
C7_IterSet ==
    yielded.done =>
        /\ \A a, b \in 1..Len(yielded.seq) : a < b => yielded.seq[a] < yielded.seq[b]
        /\ {yielded.seq[a] : a \in 1..Len(yielded.seq)} =
              {i \in 0..(bitmap.len - 1) : i \in bitmap.ones /\ i % 64 # 0}
        /\ \A a \in 1..Len(yielded.seq) : yielded.seq[a] % 64 # 0

\* iter_set ran on a bitmap changed by set and clear that holds control
\* bits and data bits in two chunks.
C7_Witness ==
    /\ yielded.done
    /\ used = {"set", "clear"}
    /\ Len(yielded.seq) >= 2
    /\ \E i \in bitmap.ones : i % 64 = 0
    /\ \E a \in 1..Len(yielded.seq) : yielded.seq[a] > 64

\* ----------------------------------------------------- claims on Message
DataBits(bm) == {i \in bm.ones : i % 64 # 0}
SpecDefines(sp, i) == SpecInRange(sp, i) /\ SpecSlot(sp, i).some
Unmutated == nops = 0
Consumed == Take(data, Len(data) - Len(cursor))

\* C1 as stated: serialize after a successful from_bytes under a spec that
\* defines every set data bit returns the parsed buffer byte for byte.
C1_RoundTrip ==
    (status = "ok" /\ out.done /\ Unmutated
        /\ \A i \in DataBits(bitmap) : SpecDefines(spec, i)) =>
        (out.kind = "ok" /\ out.bytes = data)

\* C1 amended: serialize returns the bytes of the buffer that from_bytes
\* consumed, that is the buffer without its ignored trailing bytes, and so
\* the whole buffer when nothing trails.
C1_RoundTripConsumed ==
    (status = "ok" /\ out.done /\ Unmutated
        /\ \A i \in DataBits(bitmap) : SpecDefines(spec, i)) =>
        /\ out.kind = "ok"
        /\ out.bytes = Consumed
        /\ (cursor = <<>> => out.bytes = data)

\* A message with a non-empty LLVar field was parsed to its last byte and
\* serialized unchanged.
C1_Witness ==
    /\ status = "ok" /\ out.done /\ Unmutated
    /\ \A i \in DataBits(bitmap) : SpecDefines(spec, i)
    /\ cursor = <<>>
    /\ out.kind = "ok" /\ out.bytes = data
    /\ \E i \in DataBits(bitmap) :
          /\ spec.defs[i].length_type = "LLVar"
          /\ Len(Message_field(fields, i).v) > 0

\* C2: set_field(i, v) completes for every index i, and then field(i) holds
\* v and bit i of the bitmap is set.
C2_SetField ==
    last.op = "set_field" =>
        /\ status = "ok"
        /\ Message_field(fields, last.idx) = Some(last.value)
        /\ BitMap_test(bitmap, last.idx)

\* C8: in a Message, for every non-control index with a defined spec slot,
\* the field is present exactly when its bit is set.
C8_BitmapFieldAgreement ==
    status = "ok" =>
        \A i \in DOMAIN spec.defs :
            i % 64 # 0 =>
                (Message_field(fields, i).some <=> BitMap_test(bitmap, i))

\* A parsed field of a defined slot was cleared after another defined slot
\* was given a field by set_field.
C8_Witness ==
    /\ status = "ok"
    /\ last.op = "clear_field"
    /\ used = {"set_field", "clear_field"}
    /\ last.idx \in DOMAIN spec.defs
    /\ Message_field(last.pre.fields, last.idx).some
    /\ last.idx \in last.pre.bitmap.ones
    /\ \E j \in DOMAIN spec.defs : j > 63 /\ Message_field(fields, j).some /\ j \in bitmap.ones

\* C9: parse_fields skips every set bit whose spec slot is out of range or
\* empty: no byte consumed, no field stored, the bit kept, no abort, and the
\* next set bit is processed.
C9_SkipUnspecified ==
    (last.op = "from_bytes" /\ last.stage = "fields") =>
        \A k \in 1..Len(last.log) :
            LET e == last.log[k]
            IN ~SpecDefines(spec, e.idx) =>
                /\ e.what = "skip"
                /\ e.avail = e.before
                /\ status # "panic"
                /\ e.idx \in last.parsed.ones
                /\ status = "ok" => ~Message_field(fields, e.idx).some
                /\ \A j \in DataBits(last.parsed) :
                      j > e.idx => \E k2 \in (k + 1)..Len(last.log) : last.log[k2].idx = j

\* The bytes after the MTI hold no chunk with a clear continuation bit
\* among the complete 8-byte chunks: from_cursor runs out of bytes.
ChunkMissing(buf) ==
    \A c \in 0..(((Len(buf) - MtiLen) \div ChunkBytes) - 1) :
        buf[MtiLen + ChunkBytes * c + 1] % 2 = 1

\* C10: from_bytes fails with "Truncated MTI" on fewer than 4 bytes, else
\* with "Truncated bitmap" when a required chunk has fewer than 8 bytes,
\* else with "Truncated field" when fewer than to_read bytes remain for a
\* specified field; a failed from_bytes returns no Message.
C10_Truncation ==
    last.op = "from_bytes" =>
        /\ Len(data) < MtiLen =>
              (status = "err" /\ err = ParseError("Truncated MTI", <<>>))
        /\ (Len(data) >= MtiLen /\ ChunkMissing(data)) =>
              (status = "err" /\ err = ParseError("Truncated bitmap", <<>>))
        /\ (Len(data) >= MtiLen /\ ~ChunkMissing(data)) =>
              /\ last.stage = "fields"
              /\ \A k \in 1..Len(last.log) :
                    LET e == last.log[k]
                    IN (e.what \in {"read", "truncated", "panic_fields"} /\ e.avail < e.need)
                          => /\ k = Len(last.log)
                             /\ status = "err"
                             /\ err = ParseError("Truncated field", <<>>)
              /\ err.msg = "Truncated field" =>
                    /\ Len(last.log) > 0
                    /\ LET e == last.log[Len(last.log)]
                       IN SpecDefines(spec, e.idx) /\ e.avail < e.need
        /\ err.msg \in {"Truncated MTI", "Truncated bitmap", "Truncated field"} =>
              status = "err"
        /\ status = "err" => (mti = <<>> /\ bitmap = EmptyBV /\ fields = EmptyVec)

\* from_bytes read the MTI, the bitmap and a first field, and then found
\* fewer bytes than the length prefix of an LLVar field announced.
C10_Witness ==
    /\ last.op = "from_bytes"
    /\ status = "err"
    /\ err = ParseError("Truncated field", <<>>)
    /\ Len(last.log) >= 2
    /\ last.log[Len(last.log)].need > last.log[Len(last.log)].avail
    /\ last.log[Len(last.log)].before - last.log[Len(last.log)].avail = 2

\* --------------------------------------------------- claims on FieldSpec
PrefixLen == length_size(TheSpec.length_type)

\* The position in the buffer of the first byte that is not an ASCII digit
\* among the first n bytes, 0 when all are digits.
FirstBad(buf, n) ==
    IF \E j \in 1..n : buf[j] < 48 \/ buf[j] > 57
    THEN CHOOSE j \in 1..n :
            /\ buf[j] < 48 \/ buf[j] > 57
            /\ \A i \in 1..(j - 1) : buf[i] >= 48 /\ buf[i] =< 57
    ELSE 0

\* The number written in big-endian decimal by the digits ds.
RECURSIVE DecimalValue(_)
DecimalValue(ds) ==
    IF ds = <<>> THEN 0
    ELSE 10 * DecimalValue(Take(ds, Len(ds) - 1)) + (ds[Len(ds)] - 48)

\* What C11 says of to_read's result, the bytes consumed left aside.
ToReadResult ==
    LET n == PrefixLen
        k == Len(data)
    IN IF k < n
       THEN /\ status = "err"
            /\ err = ParseError("Unable to read length prefix", <<n, k>>)
       ELSE IF FirstBad(data, n) # 0
       THEN /\ status = "err"
            /\ err = ParseError("Length byte out of range", <<data[FirstBad(data, n)]>>)
       ELSE LET v == DecimalValue(Take(data, n))
            IN /\ v =< TheSpec.length => (status = "ok" /\ last.v = Some(v))
               /\ v > TheSpec.length =>
                     /\ status = "err"
                     /\ err = ParseError("Variable length field over max length",
                                         <<v, TheSpec.length>>)
               /\ (\A j \in 1..n : data[j] = 57) =>
                     /\ v = Pow(10, n) - 1
                     /\ (status = "ok" /\ last.v = Some(Pow(10, n) - 1))
                            <=> (Pow(10, n) - 1 =< TheSpec.length)

\* C11 as stated: to_read with n prefix digits fails with "Unable to read
\* length prefix (n, k)" and consumes nothing when k < n bytes remain; else
\* it consumes exactly n bytes and fails with "Length byte out of range"
\* naming the first non-digit, or returns the decimal value v of the n
\* digits when v <= length, or fails with "over max length (v > length)".
C11_ToRead ==
    last.op = "to_read" =>
        /\ ToReadResult
        /\ cursor = IF Len(data) < PrefixLen THEN data ELSE Drop(data, PrefixLen)

\* C11 amended: the same results, and the bytes consumed are none when
\* fewer than n remain, the bytes up to and including the first non-digit
\* when there is one, and n otherwise.
C11_ToReadConsumed ==
    last.op = "to_read" =>
        /\ ToReadResult
        /\ cursor = IF Len(data) < PrefixLen THEN data
                    ELSE IF FirstBad(data, PrefixLen) # 0
                    THEN Drop(data, FirstBad(data, PrefixLen))
                    ELSE Drop(data, PrefixLen)

\* to_read failed on a non-digit that is not the last byte of the prefix,
\* after at least one digit.
C11_Witness ==
    /\ last.op = "to_read"
    /\ status = "err"
    /\ err.msg = "Length byte out of range"
    /\ Len(data) - Len(cursor) > 1
    /\ Len(data) - Len(cursor) < PrefixLen

\* The j-th of n decimal digits of v, zero-padded, as an ASCII byte.
PaddedDigit(v, n, j) == 48 + ((v \div Pow(10, n - j)) % 10)

\* C14: whenever serialize_field succeeds on a variable-length field with
\* n prefix digits, it has appended exactly n bytes holding the
\* zero-padded decimal length of the payload and then the payload, and
\* to_read on those bytes consumes n bytes and returns the payload length.
C14_PrefixWidth ==
    (out.done /\ out.kind = "ok" /\ yielded.done) =>
        /\ Len(out.bytes) = PrefixLen + Len(data)
        /\ \A j \in 1..PrefixLen : out.bytes[j] = PaddedDigit(Len(data), PrefixLen, j)
        /\ Drop(out.bytes, PrefixLen) = data
        /\ yielded.ok
        /\ yielded.v = Some(Len(data))
        /\ Len(out.bytes) - Len(yielded.rest) = PrefixLen

\* ------------------------------------- claims on the Message lifecycle
\* The elements of a finite set of numbers in ascending order.
RECURSIVE Ascending(_)
Ascending(S) ==
    IF S = {} THEN <<>>
    ELSE LET m == CHOOSE x \in S : \A y \in S : x =< y
         IN <<m>> \o Ascending(S \ {m})

\* The indices whose field serialize is to emit: the bit is set, a field
\* is stored and the spec slot is defined.
Emitted == {i \in DataBits(bitmap) : Message_field(fields, i).some /\ SpecDefines(spec, i)}

\* Prefix and payload of field i on their own.
FieldBytes(i) == serialize_field(spec.defs[i], <<>>, fields.at[i]).buf

\* C12: what serialize returns is the MTI, the bitmap chunks and then the
\* prefix and payload of every field whose bit is set and whose slot is
\* defined, by ascending index, whatever the order they were stored in.
C12_SerializeOrder ==
    (status = "ok" /\ out.done /\ out.kind = "ok") =>
        LET idxs == Ascending(Emitted)
        IN out.bytes = mti \o BitMap_serialize(bitmap)
                           \o Flatten([k \in 1..Len(idxs) |-> FieldBytes(idxs[k])])

\* serialize ran after set_field had added field 1 to a message that
\* already held field 2, and emitted both.
C12_Witness ==
    /\ status = "ok" /\ out.done /\ out.kind = "ok"
    /\ last.op = "set_field"
    /\ last.idx = 1
    /\ ~Message_field(last.pre.fields, 1).some
    /\ {1, 2} \subseteq Emitted
    /\ Len(fields.at[2]) > 0

\* C13: clear_field(i) completes for every index i; afterwards field(i) is
\* absent and bit i is clear, and the bitmap length, every other bit, the
\* MTI and every other field are as before.
C13_ClearField ==
    last.op = "clear_field" =>
        /\ status = "ok"
        /\ ~Message_field(fields, last.idx).some
        /\ ~BitMap_test(bitmap, last.idx)
        /\ bitmap.len = last.pre.bitmap.len
        /\ bitmap.ones \ {last.idx} = last.pre.bitmap.ones \ {last.idx}
        /\ mti = Take(data, MtiLen)
        /\ \A j \in 0..(FieldsLen - 1) :
              j # last.idx =>
                  Message_field(fields, j) = Message_field(last.pre.fields, j)

\* C15: when serialize succeeds on a Message built by from_bytes and any
\* set_field and clear_field calls on defined slots, from_bytes on the
\* serialized bytes succeeds and gives the same MTI, the same indices from
\* iter_set and the same payload at every field index.
C15_ReverseRoundTrip ==
    yielded.done =>
        /\ yielded.kind = "ok"
        /\ yielded.mti = mti
        /\ BitMap_iter_set(yielded.bitmap) = BitMap_iter_set(bitmap)
        /\ \A i \in 0..(FieldsLen - 1) :
              Message_field(yielded.fields, i) = Message_field(fields, i)

====
